---------------------------- MODULE Spec2Model ----------------------------
(***************************************************************************)
(* A model of the AEO content gap analyzer (openkeywords/gap_analyzer.py)  *)
(* and of the DataForSEO client (openkeywords/dataforseo_client.py).       *)
(*                                                                         *)
(* Representation.  A Python dict is a function whose domain is the set of *)
(* its keys, so a missing key is a key outside DOMAIN.  A str is the       *)
(* sequence of its characters, so that lower(), split() and the substring  *)
(* test `pattern in text` are computed on characters.  The floats of the   *)
(* program are fixed-point integers: competition and aeo_score in          *)
(* hundredths (0.3 is 30), the intent multiplier and the SERP feature      *)
(* boost in tenths (1.3 is 13), avg_difficulty in tenths.                  *)
(***************************************************************************)
EXTENDS Integers, Sequences, FiniteSets, TLC

VARIABLES
    kw, stages,                                 \* one record and the stages run on it
    keywords, filters, longtail, fpc,           \* one call of filter_longtail_aeo
    competitors, idx, all_gaps, arrival, pc, fetch_log, stats,  \* one run of analyze_content_gaps
    discovery,                                                  \* its competitor lookup, if made
    poolA, poolB, outA, outB,                   \* two runs of the ranking step
    api_login, api_password, net_calls, call, response,  \* one DataForSEO client
    payload                                     \* the decoded body it parsed, if any

recordVars == <<kw, stages>>
filterVars == <<keywords, filters, longtail, fpc>>
gapVars    == <<competitors, idx, all_gaps, arrival, pc, fetch_log, stats, discovery>>
rankVars   == <<poolA, poolB, outA, outB>>
serpVars   == <<api_login, api_password, net_calls, call, response, payload>>
vars       == <<recordVars, filterVars, gapVars, rankVars, serpVars>>

(***************************************************************************)
(* Bounds of the model.                                                    *)
(***************************************************************************)
MaxKeywords == 2        \* longest pool handed to filter_longtail_aeo
MaxCompetitors == 3     \* longest competitor list handed to analyze_content_gaps
MaxPool == 3            \* longest scored pool handed to the ranking step
MaxItems == 2           \* longest item list of a SERP payload

None == "None"          \* Python's None

(***************************************************************************)
(* dict.get(key, default) and dict[key] = value.                           *)
(***************************************************************************)
Get(d, k, default) == IF k \in DOMAIN d THEN d[k] ELSE default

Put(d, k, v) == [x \in DOMAIN d \cup {k} |-> IF x = k THEN v ELSE d[x]]

(***************************************************************************)
(* str.lower(), str.split() and the substring test on character sequences. *)
(***************************************************************************)
UpperChars == <<"A","B","C","D","E","F","G","H","I","J","K","L","M","N","O","P","Q","R","S","T","U","V","W","X","Y","Z">>

LowerChars == <<"a","b","c","d","e","f","g","h","i","j","k","l","m","n","o","p","q","r","s","t","u","v","w","x","y","z">>

LowerChar(c) ==
    IF \E i \in 1..Len(UpperChars) : UpperChars[i] = c
    THEN LowerChars[CHOOSE i \in 1..Len(UpperChars) : UpperChars[i] = c]
    ELSE c

lower(s) == [i \in 1..Len(s) |-> LowerChar(s[i])]

Whitespace == {" ", "\t", "\n"}

\* len(s.split()): the number of maximal runs of non-whitespace characters
SplitCount(s) ==
    Cardinality({i \in 1..Len(s) :
        /\ s[i] \notin Whitespace
        /\ (i = 1 \/ s[i - 1] \in Whitespace)})

\* pattern in text
\* pattern at the start of text only (str.startswith)
StartsWith(text, pattern) ==
    /\ Len(pattern) <= Len(text)
    /\ SubSeq(text, 1, Len(pattern)) = pattern

Contains(text, pattern) ==
    \E i \in 0..(Len(text) - Len(pattern)) :
        SubSeq(text, i + 1, i + Len(pattern)) = pattern

(***************************************************************************)
(* Module-level configuration of gap_analyzer.py.                          *)
(***************************************************************************)
AEO_FILTERS ==
    [min_volume |-> 100, max_volume |-> 5000, max_difficulty |-> 35,
     max_competition |-> 30, min_words |-> 3]

\* a dict in declaration order: Python iterates .items() in insertion order
AEO_INTENT_PATTERNS == <<
    [intent |-> "question", multiplier |-> 15,
     keywords |-> << <<"h","o","w">>, <<"w","h","a","t">>, <<"w","h","y">>, <<"w","h","e","n">>, <<"w","h","e","r","e">>, <<"w","h","o">>,
                     <<"c","a","n">>, <<"s","h","o","u","l","d">>, <<"d","o","e","s">>, <<"i","s">>, <<"a","r","e">>, <<"w","i","l","l">>,
                     <<"w","o","u","l","d">> >>],
    [intent |-> "commercial", multiplier |-> 13,
     keywords |-> << <<"b","e","s","t">>, <<"t","o","p">>, <<"v","s">>, <<"v","e","r","s","u","s">>, <<"r","e","v","i","e","w">>,
                     <<"c","o","m","p","a","r","e">>, <<"p","r","i","c","i","n","g">>, <<"c","o","s","t">>, <<"a","l","t","e","r","n","a","t","i","v","e">> >>],
    [intent |-> "informational", multiplier |-> 14,
     keywords |-> << <<"g","u","i","d","e">>, <<"t","u","t","o","r","i","a","l">>, <<"t","i","p","s">>, <<"e","x","a","m","p","l","e","s">>,
                     <<"t","e","m","p","l","a","t","e">>, <<"c","h","e","c","k","l","i","s","t">>, <<"d","e","f","i","n","i","t","i","o","n">>, <<"m","e","a","n","i","n","g">> >>],
    [intent |-> "list", multiplier |-> 14,
     keywords |-> << <<"l","i","s","t">>, <<"w","a","y","s"," ","t","o">>, <<"s","t","e","p","s"," ","t","o">>, <<"t","y","p","e","s"," ","o","f">>,
                     <<"k","i","n","d","s"," ","o","f">>, <<"i","d","e","a","s"," ","f","o","r">> >>],
    [intent |-> "local", multiplier |-> 11,
     keywords |-> << <<"n","e","a","r"," ","m","e">>, <<"i","n">>, <<"l","o","c","a","l">>, <<"n","e","a","r","b","y">>, <<"a","r","o","u","n","d">> >>] >>

AEO_SERP_FEATURES ==
    <<"people_also_ask", "featured_snippet", "sge", "knowledge_panel", "faq">>

Range(s) == {s[i] : i \in 1..Len(s)}

(***************************************************************************)
(* AEOContentGapAnalyzer.filter_longtail_aeo.  The returned list holds     *)
(* the very dict objects of the input list, so the model keeps the input   *)
(* list as it is after the call (FilterInputAfter) and the returned list   *)
(* as the positions of the kept objects in it (FilterKeptPositions).       *)
(***************************************************************************)
WordCount(row) == SplitCount(Get(row, "keyword", <<>>))

\* exclusive instead of inclusive bounds
FilterKeepsExclusive(row, f) ==
    /\ f.min_volume < Get(row, "volume", 0)
    /\ Get(row, "volume", 0) < f.max_volume
    /\ Get(row, "difficulty", 100) < f.max_difficulty
    /\ Get(row, "competition", 100) < f.max_competition
    /\ WordCount(row) > f.min_words

FilterKeeps(row, f) ==
    /\ f.min_volume <= Get(row, "volume", 0)
    /\ Get(row, "volume", 0) <= f.max_volume
    /\ Get(row, "difficulty", 100) <= f.max_difficulty
    /\ Get(row, "competition", 100) <= f.max_competition
    /\ WordCount(row) >= f.min_words

\* writes word_count into every input record, excluded ones too
FilterInputAfterAll(kws, f) ==
    [i \in 1..Len(kws) |-> Put(kws[i], "word_count", WordCount(kws[i]))]

FilterInputAfter(kws, f) ==
    [i \in 1..Len(kws) |->
        IF FilterKeeps(kws[i], f)
        THEN Put(kws[i], "word_count", WordCount(kws[i]))
        ELSE kws[i]]

RECURSIVE PositionsFrom(_, _, _)
PositionsFrom(kws, f, i) ==
    IF i > Len(kws) THEN <<>>
    ELSE (IF FilterKeeps(kws[i], f) THEN <<i>> ELSE <<>>)
         \o PositionsFrom(kws, f, i + 1)

FilterKeptPositions(kws, f) == PositionsFrom(kws, f, 1)

filter_longtail_aeo(kws, f) ==
    LET after == FilterInputAfter(kws, f)
        kept  == FilterKeptPositions(kws, f)
    IN  [j \in 1..Len(kept) |-> after[kept[j]]]

(***************************************************************************)
(* AEOContentGapAnalyzer.categorize_by_intent.                             *)
(***************************************************************************)
\* the running maximum starts at 0 instead of 1.0
IntentScanStartZero ==
    [matched_intents |-> <<>>, max_multiplier |-> 0, primary_intent |-> "other"]

IntentScanStart ==
    [matched_intents |-> <<>>, max_multiplier |-> 10, primary_intent |-> "other"]

PatternMatches(config, keyword_lower) ==
    \E p \in 1..Len(config.keywords) : Contains(keyword_lower, config.keywords[p])

\* a later intent of equal multiplier takes over
RaisesOrTiesMaximum(multiplier, max_multiplier) == multiplier >= max_multiplier

RaisesMaximum(multiplier, max_multiplier) == multiplier > max_multiplier

IntentStep(acc, config, keyword_lower) ==
    IF PatternMatches(config, keyword_lower)
    THEN [matched_intents |-> Append(acc.matched_intents, config.intent),
          max_multiplier |->
              IF RaisesMaximum(config.multiplier, acc.max_multiplier)
              THEN config.multiplier ELSE acc.max_multiplier,
          primary_intent |->
              IF RaisesMaximum(config.multiplier, acc.max_multiplier)
              THEN config.intent ELSE acc.primary_intent]
    ELSE acc

RECURSIVE IntentScan(_, _, _)
IntentScan(acc, i, keyword_lower) ==
    IF i > Len(AEO_INTENT_PATTERNS) THEN acc
    ELSE IntentScan(IntentStep(acc, AEO_INTENT_PATTERNS[i], keyword_lower),
                    i + 1, keyword_lower)

categorize_by_intent(keyword) ==
    LET r == IntentScan(IntentScanStart, 1, lower(keyword.keyword))
    IN  Put(Put(Put(keyword, "intent", r.primary_intent),
                "intent_multiplier", r.max_multiplier),
            "matched_intents", r.matched_intents)

(***************************************************************************)
(* AEOContentGapAnalyzer.check_aeo_serp_features.                          *)
(***************************************************************************)
\* every SERP feature counts, whether on the allow-list or not
IsAnyFeature(f) == f \in Range(AEO_SERP_FEATURES) \/ f \notin Range(AEO_SERP_FEATURES)

IsAeoFeature(f) == f \in Range(AEO_SERP_FEATURES)

check_aeo_serp_features(keyword) ==
    LET aeo_features == SelectSeq(Get(keyword, "serp_features", <<>>), IsAeoFeature)
        has == Len(aeo_features) > 0
    IN  Put(Put(Put(keyword, "aeo_serp_features", aeo_features),
                "has_aeo_features", has),
            "aeo_feature_boost", IF has THEN 13 ELSE 10)

(***************************************************************************)
(* round().  round(x) to an integer is exact: the nearest integer, a half  *)
(* to the even neighbour.  round(x, ndigits) rounds the binary float, and  *)
(* which neighbour a decimal half goes to depends on the float's bits, so  *)
(* at an exact half both neighbours are outcomes (n >= 0, d > 0).          *)
(***************************************************************************)
Round(n, d) ==
    LET q == n \div d
        r == n % d
    IN  IF 2 * r < d THEN q
        ELSE IF 2 * r > d THEN q + 1
        ELSE IF q % 2 = 0 THEN q ELSE q + 1

\* truncation instead of rounding
TruncateDigits(n, d) == {n \div d}

RoundDigits(n, d) ==
    LET q == n \div d
        r == n % d
    IN  IF 2 * r < d THEN {q}
        ELSE IF 2 * r > d THEN {q + 1}
        ELSE {q, q + 1}

(***************************************************************************)
(* AEOContentGapAnalyzer.calculate_aeo_score.  volume * multiplier * boost *)
(* is the numerator in hundredths, since both factors are in tenths.       *)
(***************************************************************************)
ScoreNumerator(keyword) ==
    Get(keyword, "volume", 0) * Get(keyword, "intent_multiplier", 10)
        * Get(keyword, "aeo_feature_boost", 10)

ScoreDivisor(keyword) == Get(keyword, "difficulty", 100) + 1

\* the values round(aeo_score, 2) can take, in hundredths
AeoScoreValues(keyword) ==
    RoundDigits(ScoreNumerator(keyword), ScoreDivisor(keyword))

\* keyword["intent_multiplier"] and keyword["aeo_feature_boost"] instead of
\* .get: a record that lacks one raises KeyError and no record is left behind
calculate_aeo_score_staged(keyword) ==
    IF {"intent_multiplier", "aeo_feature_boost"} \subseteq DOMAIN keyword
    THEN {Put(keyword, "aeo_score", s) : s \in AeoScoreValues(keyword)}
    ELSE {}

\* the records calculate_aeo_score can leave behind
calculate_aeo_score(keyword) ==
    {Put(keyword, "aeo_score", s) : s \in AeoScoreValues(keyword)}

(***************************************************************************)
(* Inputs: keyword texts and raw provider rows.                            *)
(***************************************************************************)
KeywordTexts ==
    { <<"h","o","w"," ","t","o"," ","f","i","x">>, <<"t","i","p","s"," ","w","a","y","s"," ","t","o"," ","g","o">>, <<"P","r","i","c","i","n","g">>, <<"p","r","i","c","i","n","g">>, <<"z","z","z">>,
      <<"b","e","s","t"," ","g","u","i","d","e">>, <<"l","i","s","t"," ","o","f"," ","x">>, <<"N","e","a","r"," ","M","e"," ","C","a","f","e">> }

\* an optional field is <<>> (key missing) or <<value>>
WithOptional(d, k, opt) == IF opt = <<>> THEN d ELSE Put(d, k, opt[1])

RawRecords ==
    { WithOptional(WithOptional(WithOptional([keyword |-> k],
          "volume", v), "difficulty", dif), "serp_features", sf) :
        k \in KeywordTexts,
        v \in {<<>>, <<1>>, <<800>>, <<3000>>},
        dif \in {<<>>, <<0>>, <<1>>, <<10>>, <<20>>},
        sf \in {<<>>, << <<>> >>, << <<"featured_snippet">> >>,
                << <<"video">> >>, << <<"video", "faq">> >>} }

(***************************************************************************)
(* Values of the variables of a part of the program that is not running.   *)
(***************************************************************************)
RecordIdle == kw = <<>> /\ stages = <<>>

FilterIdle == keywords = <<>> /\ filters = AEO_FILTERS /\ longtail = <<>> /\ fpc = "idle"

GapIdle ==
    /\ competitors = <<>> /\ idx = 0 /\ all_gaps = <<>> /\ arrival = <<>>
    /\ pc = "idle"
    /\ fetch_log = <<>> /\ stats = <<>> /\ discovery = <<>>

RankIdle == poolA = <<>> /\ poolB = <<>> /\ outA = <<>> /\ outB = <<>>

SerpIdle ==
    /\ api_login = <<>> /\ api_password = <<>> /\ net_calls = 0
    /\ call = "none" /\ response = <<>> /\ payload = <<>>

(***************************************************************************)
(* SpecRecord: a caller runs the three per-record stages on one record,    *)
(* in any order, each stage mutating the record in place.                  *)
(***************************************************************************)
MaxCalls == 3

InitRecord ==
    /\ kw \in RawRecords /\ stages = <<>>
    /\ FilterIdle /\ GapIdle /\ RankIdle /\ SerpIdle

CategorizeByIntent ==
    /\ Len(stages) < MaxCalls
    /\ kw' = categorize_by_intent(kw)
    /\ stages' = Append(stages, "categorize_by_intent")
    /\ UNCHANGED <<filterVars, gapVars, rankVars, serpVars>>

CheckAeoSerpFeatures ==
    /\ Len(stages) < MaxCalls
    /\ kw' = check_aeo_serp_features(kw)
    /\ stages' = Append(stages, "check_aeo_serp_features")
    /\ UNCHANGED <<filterVars, gapVars, rankVars, serpVars>>

CalculateAeoScore ==
    /\ Len(stages) < MaxCalls
    /\ kw' \in calculate_aeo_score(kw)
    /\ stages' = Append(stages, "calculate_aeo_score")
    /\ UNCHANGED <<filterVars, gapVars, rankVars, serpVars>>

NextRecord == CategorizeByIntent \/ CheckAeoSerpFeatures \/ CalculateAeoScore

SpecRecord == InitRecord /\ [][NextRecord]_vars

(***************************************************************************)
(* C2.  After calculate_aeo_score the stored aeo_score is                  *)
(* volume * intent_multiplier * aeo_feature_boost / (difficulty + 1)       *)
(* rounded to two decimals (a nearest hundredth), missing fields taking    *)
(* their defaults; the divisor is never 0, and for difficulty 0 it is 1,   *)
(* so the score is the product itself.                                     *)
(***************************************************************************)
Abs(x) == IF x < 0 THEN -x ELSE x

LastStage == IF stages = <<>> THEN None ELSE stages[Len(stages)]

C2_Product ==
    (IF "volume" \in DOMAIN kw THEN kw.volume ELSE 0)
    * (IF "intent_multiplier" \in DOMAIN kw THEN kw.intent_multiplier ELSE 10)
    * (IF "aeo_feature_boost" \in DOMAIN kw THEN kw.aeo_feature_boost ELSE 10)

C2_Difficulty == IF "difficulty" \in DOMAIN kw THEN kw.difficulty ELSE 100

C2_ScoreIsRounded ==
    LastStage = "calculate_aeo_score" =>
        /\ "aeo_score" \in DOMAIN kw
        /\ 2 * Abs(kw.aeo_score * (C2_Difficulty + 1) - C2_Product)
               <= C2_Difficulty + 1
        /\ C2_Difficulty = 0 => kw.aeo_score = C2_Product

\* a record of difficulty 0 scored after both other stages:
\* 800 * 1.5 * 1.3 / (0 + 1) = 1560.00
C2_Witness ==
    /\ stages = <<"categorize_by_intent", "check_aeo_serp_features",
                  "calculate_aeo_score">>
    /\ C2_Difficulty = 0
    /\ "volume" \in DOMAIN kw /\ kw.volume = 800
    /\ kw.aeo_score = 800 * 15 * 13

(***************************************************************************)
(* C3.  After categorize_by_intent the primary intent is the matched       *)
(* intent of highest multiplier, and among matched intents of equal        *)
(* highest multiplier the one declared first in the table.                 *)
(***************************************************************************)
Categorized == "categorize_by_intent" \in Range(stages)

C3_MatchedRows ==
    {i \in 1..Len(AEO_INTENT_PATTERNS) :
        AEO_INTENT_PATTERNS[i].intent \in Range(kw.matched_intents)}

C3_Best(rows) ==
    CHOOSE i \in rows : \A j \in rows :
        \/ AEO_INTENT_PATTERNS[j].multiplier < AEO_INTENT_PATTERNS[i].multiplier
        \/ /\ AEO_INTENT_PATTERNS[j].multiplier = AEO_INTENT_PATTERNS[i].multiplier
           /\ i <= j

C3_PrimaryIsFirstHighest ==
    (Categorized /\ C3_MatchedRows # {}) =>
        /\ kw.intent = AEO_INTENT_PATTERNS[C3_Best(C3_MatchedRows)].intent
        /\ kw.intent_multiplier
              = AEO_INTENT_PATTERNS[C3_Best(C3_MatchedRows)].multiplier

\* informational and list both matched, both 1.4, question not matched
C3_Witness ==
    /\ Categorized
    /\ kw.matched_intents = <<"informational", "list">>
    /\ kw.intent = "informational"
    /\ kw.intent_multiplier = 14

(***************************************************************************)
(* C4.  After categorize_by_intent, intent_multiplier >= 1.0, and intent   *)
(* is "other" exactly when matched_intents is empty, the multiplier then   *)
(* being exactly 1.0.                                                      *)
(***************************************************************************)
C4_OtherIffUnmatched ==
    Categorized =>
        /\ kw.intent_multiplier >= 10
        /\ (kw.intent = "other") <=> (kw.matched_intents = <<>>)
        /\ kw.matched_intents = <<>> => kw.intent_multiplier = 10

C4_Witness ==
    /\ Categorized
    /\ kw.keyword = <<"z","z","z">>
    /\ kw.intent = "other"
    /\ kw.matched_intents = <<>>
    /\ kw.intent_multiplier = 10

(***************************************************************************)
(* SpecFilter: one call filter_longtail_aeo(keywords, filters).  The       *)
(* argument filters is <<>> for None (the default) or <<criteria>>.        *)
(***************************************************************************)
FilterRows ==
    { [keyword |-> <<"h","o","w"," ","t","o"," ","f","i","x">>, volume |-> 100, difficulty |-> 35, competition |-> 30],
      [keyword |-> <<"h","o","w"," ","t","o"," ","f","i","x">>, volume |-> 5000, difficulty |-> 0, competition |-> 0],
      [keyword |-> <<"h","o","w"," ","t","o"," ","f","i","x">>, volume |-> 99, difficulty |-> 20, competition |-> 15],
      [keyword |-> <<"h","o","w"," ","t","o"," ","f","i","x">>, volume |-> 5001, difficulty |-> 20, competition |-> 15],
      [keyword |-> <<"h","o","w"," ","t","o"," ","f","i","x">>, volume |-> 800, difficulty |-> 36, competition |-> 15],
      [keyword |-> <<"h","o","w"," ","t","o"," ","f","i","x">>, volume |-> 800, difficulty |-> 20, competition |-> 31],
      [keyword |-> <<"b","e","s","t"," ","g","u","i","d","e">>, volume |-> 800, difficulty |-> 20, competition |-> 15],
      [keyword |-> <<" ", "a", "\t", "b", " ", "\n", "c", " ">>,
       volume |-> 200, difficulty |-> 10, competition |-> 10],
      [keyword |-> <<"h","o","w"," ","t","o"," ","f","i","x">>],
      [volume |-> 200, difficulty |-> 10, competition |-> 10],
      [keyword |-> <<"h","o","w"," ","t","o"," ","f","i","x">>, volume |-> 800, difficulty |-> 20, competition |-> 15,
       word_count |-> 7] }

FilterCriteria ==
    { AEO_FILTERS,
      [min_volume |-> 0, max_volume |-> 1000000, max_difficulty |-> 100,
       max_competition |-> 100, min_words |-> 0],
      [min_volume |-> 200, max_volume |-> 200, max_difficulty |-> 10,
       max_competition |-> 10, min_words |-> 1] }

RECURSIVE SeqsUpTo(_, _)
SeqsUpTo(S, n) ==
    IF n = 0 THEN {<<>>}
    ELSE SeqsUpTo(S, n - 1)
         \cup {Append(q, x) : q \in {t \in SeqsUpTo(S, n - 1) : Len(t) = n - 1}, x \in S}

EffectiveFilters(arg) == IF arg = <<>> THEN AEO_FILTERS ELSE arg[1]

InitFilter ==
    /\ keywords \in SeqsUpTo(FilterRows, MaxKeywords)
    /\ filters \in {<<>>} \cup {<<f>> : f \in FilterCriteria}
    /\ longtail = <<>>
    /\ fpc = "ready"
    /\ RecordIdle /\ GapIdle /\ RankIdle /\ SerpIdle

FilterLongtailAeo ==
    /\ fpc = "ready"
    /\ keywords' = FilterInputAfter(keywords, EffectiveFilters(filters))
    /\ longtail' = FilterKeptPositions(keywords, EffectiveFilters(filters))
    /\ fpc' = "returned"
    /\ UNCHANGED <<filters, recordVars, gapVars, rankVars, serpVars>>

NextFilter == FilterLongtailAeo

SpecFilter == InitFilter /\ [][NextFilter]_vars

(***************************************************************************)
(* C1.  Every returned record satisfies the five inclusive bounds,         *)
(* min_volume <= volume <= max_volume, difficulty <= max_difficulty,       *)
(* competition <= max_competition and word_count >= min_words, with        *)
(* word_count the number of whitespace-separated tokens and missing        *)
(* fields taken as volume 0, difficulty 100, competition 1.0; every input  *)
(* record not returned violates at least one of them.                      *)
(***************************************************************************)
RECURSIVE C1_Tokens(_, _)
\* tokens of s from position i on, scanning left to right
C1_Tokens(s, i) ==
    IF i > Len(s) THEN 0
    ELSE IF s[i] \in {" ", "\t", "\n"} THEN C1_Tokens(s, i + 1)
    ELSE IF i < Len(s) /\ s[i + 1] \notin {" ", "\t", "\n"} THEN C1_Tokens(s, i + 1)
    ELSE 1 + C1_Tokens(s, i + 1)

C1_InBounds(row, f) ==
    LET volume == IF "volume" \in DOMAIN row THEN row.volume ELSE 0
        difficulty == IF "difficulty" \in DOMAIN row THEN row.difficulty ELSE 100
        competition == IF "competition" \in DOMAIN row THEN row.competition ELSE 100
        words == IF "keyword" \in DOMAIN row THEN C1_Tokens(row.keyword, 1) ELSE 0
    IN  /\ f.min_volume <= volume /\ volume <= f.max_volume
        /\ difficulty <= f.max_difficulty
        /\ competition <= f.max_competition
        /\ words >= f.min_words

C1_FilterIsExact ==
    fpc = "returned" =>
        LET f == IF filters = <<>> THEN AEO_FILTERS ELSE filters[1]
        IN  \A i \in 1..Len(keywords) :
                (i \in Range(longtail)) <=> C1_InBounds(keywords[i], f)

\* a pool with a record on every inclusive bound, kept, beside one just
\* outside a bound, excluded
C1_Witness ==
    /\ fpc = "returned"
    /\ filters = <<>>
    /\ Len(keywords) = 2
    /\ longtail = <<2>>
    /\ Get(keywords[1], "difficulty", 100) = 36
    /\ Get(keywords[2], "volume", 0) = 100
    /\ Get(keywords[2], "difficulty", 100) = 35
    /\ Get(keywords[2], "competition", 100) = 30
    /\ Get(keywords[2], "word_count", 0) = 3

(***************************************************************************)
(* SEORankingAPI.  A provider response is what requests.get and            *)
(* raise_for_status make of it: "ok" with the decoded JSON body, or one of *)
(* the RequestException failures.  A call returns [raised, value]: raised  *)
(* is TRUE when an exception leaves the method.                            *)
(***************************************************************************)
RequestFailures == {"timeout", "connection_error", "http_error"}

\* no except clause: the failure leaves the method
get_keyword_comparison_uncaught(resp) ==
    IF resp.kind = "ok" THEN [raised |-> FALSE, value |-> resp.body]
    ELSE [raised |-> TRUE, value |-> <<>>]

get_keyword_comparison(resp) ==
    IF resp.kind = "ok" THEN [raised |-> FALSE, value |-> resp.body]
    ELSE [raised |-> FALSE, value |-> <<>>]

\* without the except clause: a failed lookup raises
get_competitors_uncaught(resp) ==
    IF resp.kind = "ok" THEN [raised |-> FALSE, value |-> resp.body]
    ELSE [raised |-> TRUE, value |-> <<>>]

get_competitors(resp) ==
    IF resp.kind = "ok" THEN [raised |-> FALSE, value |-> resp.body]
    ELSE [raised |-> FALSE, value |-> <<>>]

(***************************************************************************)
(* list.sort(key=lambda x: x["aeo_score"], reverse=True): a stable sort,   *)
(* records of equal key keep their order.  Insertion from the left: a      *)
(* record goes behind every record whose key is not smaller.               *)
(***************************************************************************)
\* an unstable sort: a record goes ahead of the records of equal key
StaysAheadStrict(a, b) == a.aeo_score > b.aeo_score

StaysAhead(a, b) == a.aeo_score >= b.aeo_score

RECURSIVE InsertByScore(_, _)
InsertByScore(sorted, x) ==
    IF sorted = <<>> THEN <<x>>
    ELSE IF StaysAhead(Head(sorted), x)
         THEN <<Head(sorted)>> \o InsertByScore(Tail(sorted), x)
         ELSE <<x>> \o sorted

\* sorted(...) with the result dropped: the list stays as collected
\* the sort with duplicates dropped: of the records that share a keyword
\* only the first collected one is kept
RECURSIVE SortDistinctKeywords(_)
SortDistinctKeywords(l) ==
    IF l = <<>> THEN <<>>
    ELSE LET init == SubSeq(l, 1, Len(l) - 1)
             x == l[Len(l)]
         IN  IF \E i \in 1..Len(init) : init[i].keyword = x.keyword
             THEN SortDistinctKeywords(init)
             ELSE InsertByScore(SortDistinctKeywords(init), x)

SortDiscarded(l) == l

RECURSIVE SortByScore(_)
SortByScore(l) ==
    IF l = <<>> THEN <<>>
    ELSE InsertByScore(SortByScore(SubSeq(l, 1, Len(l) - 1)), l[Len(l)])

(***************************************************************************)
(* The loop body of analyze_content_gaps for one competitor's payload.     *)
(***************************************************************************)
RECURSIVE ScoreEach(_)
ScoreEach(l) ==
    IF l = <<>> THEN {<<>>}
    ELSE {<<h>> \o t : h \in calculate_aeo_score(Head(l)), t \in ScoreEach(Tail(l))}

TagAndClassify(row, competitor) ==
    check_aeo_serp_features(categorize_by_intent(Put(row, "competitor", competitor)))

\* the lists the loop body can append to all_gaps
AnalyzeGaps(gaps, competitor) ==
    IF gaps = <<>> THEN {<<>>}
    ELSE LET kept == filter_longtail_aeo(gaps, AEO_FILTERS)
         IN  ScoreEach([j \in 1..Len(kept) |-> TagAndClassify(kept[j], competitor)])

(***************************************************************************)
(* AEOContentGapAnalyzer.generate_summary_stats: the dicts it can return.  *)
(***************************************************************************)
RECURSIVE SumOf(_, _)
SumOf(l, field) == IF l = <<>> THEN 0 ELSE Head(l)[field] + SumOf(Tail(l), field)

\* a zeroed structure instead of the empty dict
ZeroedSummary ==
    {[total_opportunities |-> 0, intent_breakdown |-> <<>>,
      with_aeo_serp_features |-> 0, question_keywords |-> 0,
      avg_aeo_score |-> 0, avg_volume |-> 0, avg_difficulty |-> 0]}

EmptySummary == {<<>>}

generate_summary_stats(gaps) ==
    IF gaps = <<>> THEN EmptySummary
    ELSE LET intents == {Get(gaps[i], "intent", "other") : i \in 1..Len(gaps)}
             with_intent(x) == {i \in 1..Len(gaps) : Get(gaps[i], "intent", "other") = x}
             with_aeo_features ==
                 {i \in 1..Len(gaps) : Get(gaps[i], "has_aeo_features", FALSE)}
             question_kw == {i \in 1..Len(gaps) : Get(gaps[i], "intent", None) = "question"}
         IN  {[total_opportunities |-> Len(gaps),
               intent_breakdown |-> [x \in intents |-> Cardinality(with_intent(x))],
               with_aeo_serp_features |-> Cardinality(with_aeo_features),
               question_keywords |-> Cardinality(question_kw),
               avg_aeo_score |-> a,
               avg_volume |-> Round(SumOf(gaps, "volume"), Len(gaps)),
               avg_difficulty |-> d] :
                 a \in RoundDigits(SumOf(gaps, "aeo_score"), Len(gaps)),
                 d \in RoundDigits(10 * SumOf(gaps, "difficulty"), Len(gaps))}

(***************************************************************************)
(* Spec: one run of analyze_content_gaps(domain, competitors), followed by *)
(* generate_summary_stats on the list it returned.                         *)
(***************************************************************************)
DefaultMaxCompetitors == 3

CompetitorNames == <<"a.com", "b.com", "c.com", "d.com", "e.com">>

CompetitorLists == {SubSeq(CompetitorNames, 1, n) : n \in 0..MaxCompetitors}

GapRowA == [keyword |-> <<"h","o","w"," ","t","o"," ","f","i","x">>, volume |-> 200, difficulty |-> 1, competition |-> 10]

GapRowB == [keyword |-> <<"h","o","w"," ","t","o"," ","f","i","x">>, volume |-> 400, difficulty |-> 3, competition |-> 10]

GapRowC == [keyword |-> <<"h","o","w"," ","t","o"," ","a","i","m">>, volume |-> 200, difficulty |-> 1, competition |-> 10]

GapRowD == [keyword |-> <<"h","o","w"," ","t","o"," ","f","i","x">>, volume |-> 800, difficulty |-> 50, competition |-> 15]

GapRowE ==
    [keyword |-> <<"b","e","s","t"," ","g","u","i","d","e"," ","t","i","p","s">>, volume |-> 3000, difficulty |-> 10,
     competition |-> 30, serp_features |-> <<"video", "featured_snippet">>]

GapRowF == [keyword |-> <<"z","z","z"," ","f","o","r"," ","y","o","u">>, volume |-> 101, difficulty |-> 1, competition |-> 0]

GapPayloads ==
    { <<>>, <<GapRowA>>, <<GapRowB>>, <<GapRowA, GapRowB>>, <<GapRowC, GapRowA>>,
      <<GapRowA, GapRowC>>, <<GapRowD>>, <<GapRowD, GapRowE>>, <<GapRowF, GapRowE>> }

ComparisonResponses ==
    {[kind |-> "ok", body |-> g] : g \in GapPayloads}
        \cup {[kind |-> k] : k \in RequestFailures}

CompetitorResponses ==
    {[kind |-> "ok", body |-> [i \in 1..n |-> [domain |-> CompetitorNames[i]]]] :
        n \in {0, 1, DefaultMaxCompetitors + 1}}
        \cup {[kind |-> k] : k \in RequestFailures}

Init ==
    /\ competitors \in CompetitorLists
    /\ idx = 0 /\ all_gaps = <<>> /\ arrival = <<>>
    /\ pc = IF competitors = <<>> THEN "discover" ELSE "loop"
    /\ fetch_log = <<>> /\ stats = <<>> /\ discovery = <<>>
    /\ RecordIdle /\ FilterIdle /\ RankIdle /\ SerpIdle

\* if not competitors: resolve them; with none found the loop body never runs
DiscoverCompetitors ==
    /\ pc = "discover"
    /\ \E resp \in CompetitorResponses :
         LET r == get_competitors(resp)
             found == [i \in 1..(IF Len(r.value) < DefaultMaxCompetitors
                                 THEN Len(r.value) ELSE DefaultMaxCompetitors)
                         |-> r.value[i].domain]
         IN  /\ discovery' = <<resp>>
             /\ competitors' = found
             /\ pc' = IF r.raised THEN "raised" ELSE IF found = <<>> THEN "done" ELSE "loop"
    /\ UNCHANGED <<idx, all_gaps, arrival, fetch_log, stats>>
    /\ UNCHANGED <<recordVars, filterVars, rankVars, serpVars>>

\* one iteration of the loop; the last one runs on into the sort and the return
CompareWithCompetitor ==
    /\ pc = "loop"
    /\ idx < Len(competitors)
    /\ \E resp \in ComparisonResponses :
         LET competitor == competitors[idx + 1]
             r == get_keyword_comparison(resp)
         IN  /\ fetch_log' = Append(fetch_log, [competitor |-> competitor, response |-> resp])
             /\ IF r.raised
                THEN pc' = "raised" /\ UNCHANGED <<idx, all_gaps, arrival>>
                ELSE \E scored \in AnalyzeGaps(r.value, competitor) :
                       /\ idx' = idx + 1
                       /\ arrival' = arrival \o scored
                       /\ IF idx + 1 = Len(competitors)
                          THEN all_gaps' = SortByScore(arrival \o scored) /\ pc' = "done"
                          ELSE all_gaps' = arrival \o scored /\ pc' = "loop"
    /\ UNCHANGED <<competitors, stats, discovery>>
    /\ UNCHANGED <<recordVars, filterVars, rankVars, serpVars>>

GenerateSummaryStats ==
    /\ pc = "done"
    /\ stats' \in generate_summary_stats(all_gaps)
    /\ pc' = "summarised"
    /\ UNCHANGED <<competitors, idx, all_gaps, arrival, fetch_log, discovery>>
    /\ UNCHANGED <<recordVars, filterVars, rankVars, serpVars>>

Next == DiscoverCompetitors \/ CompareWithCompetitor \/ GenerateSummaryStats

Spec == Init /\ [][Next]_vars

(***************************************************************************)
(* C5.  The claim as stated: the returned list is ordered by descending    *)
(* aeo_score, records of equal aeo_score by descending volume, records of  *)
(* equal aeo_score and volume by ascending lexicographic keyword text.     *)
(* The code sorts on aeo_score alone, so this fails.                       *)
(***************************************************************************)
Returned == pc \in {"done", "summarised"}

\* code point order of the characters used: whitespace, upper case, lower case
CodePointOrder == <<"\t", "\n", " ">> \o UpperChars \o LowerChars

CodePoint(c) == CHOOSE i \in 1..Len(CodePointOrder) : CodePointOrder[i] = c

\* a <= b as Python compares str
StrLeq(a, b) ==
    \/ a = b
    \/ \E k \in 1..(Len(a) + 1) :
          /\ k <= Len(b)
          /\ SubSeq(a, 1, k - 1) = SubSeq(b, 1, k - 1)
          /\ (k = Len(a) + 1 \/ CodePoint(a[k]) < CodePoint(b[k]))

C5_RanksBefore(x, y) ==
    \/ x.aeo_score > y.aeo_score
    \/ x.aeo_score = y.aeo_score /\ x.volume > y.volume
    \/ x.aeo_score = y.aeo_score /\ x.volume = y.volume /\ StrLeq(x.keyword, y.keyword)

C5_TieBreakByVolumeThenKeyword ==
    Returned =>
        \A i, j \in 1..Len(all_gaps) : i < j => C5_RanksBefore(all_gaps[i], all_gaps[j])

(***************************************************************************)
(* C5, amended.  The returned list holds the collected records ordered by  *)
(* descending aeo_score; records of equal aeo_score keep the order in      *)
(* which they were collected (competitor order, then payload row order).   *)
(***************************************************************************)
\* the records of l whose aeo_score is v, in the order they have in l
WithScore(l, v) == LET Has(g) == g.aeo_score = v IN SelectSeq(l, Has)

ScoresOf(l) == {l[i].aeo_score : i \in 1..Len(l)}

C5_DescendingScoreStable ==
    Returned =>
        /\ Len(all_gaps) = Len(arrival)
        /\ \A i, j \in 1..Len(all_gaps) :
              i < j => all_gaps[i].aeo_score >= all_gaps[j].aeo_score
        /\ \A v \in ScoresOf(arrival) \cup ScoresOf(all_gaps) :
              WithScore(all_gaps, v) = WithScore(arrival, v)

\* two records of equal score returned in arrival order, the one of smaller
\* volume first, behind a record of higher score that arrived last
C5_Witness ==
    /\ pc = "done"
    /\ Len(all_gaps) = 3
    /\ all_gaps[1].aeo_score > all_gaps[2].aeo_score
    /\ all_gaps[2].aeo_score = all_gaps[3].aeo_score
    /\ all_gaps[2].volume < all_gaps[3].volume
    /\ arrival[3] = all_gaps[1]

(***************************************************************************)
(* C7.  The claim as stated: on an empty pool generate_summary_stats       *)
(* returns a zeroed structure, with total count 0, an empty intent         *)
(* histogram, feature count 0 and averages 0.  The code returns the empty  *)
(* dict, which has none of these fields, so this fails.                    *)
(***************************************************************************)
C7_ZeroedSummary ==
    (pc = "summarised" /\ all_gaps = <<>>) =>
        /\ {"total_opportunities", "intent_breakdown", "with_aeo_serp_features",
            "avg_aeo_score", "avg_volume", "avg_difficulty"} \subseteq DOMAIN stats
        /\ stats.total_opportunities = 0
        /\ DOMAIN stats.intent_breakdown = {}
        /\ stats.with_aeo_serp_features = 0
        /\ stats.avg_aeo_score = 0 /\ stats.avg_volume = 0 /\ stats.avg_difficulty = 0

(***************************************************************************)
(* C7, amended.  On an empty pool generate_summary_stats returns, without  *)
(* raising, the empty dict: it has no field at all, and no average is      *)
(* computed, so nothing is divided by the pool's length 0.                 *)
(***************************************************************************)
C7_EmptyPoolGivesEmptyDict ==
    /\ (pc = "done" /\ all_gaps = <<>>) => ENABLED GenerateSummaryStats
    /\ (pc = "summarised" /\ all_gaps = <<>>) => DOMAIN stats = {}

\* every competitor's fetch failed or was filtered to nothing
C7_Witness ==
    /\ pc = "summarised"
    /\ Len(competitors) = 2
    /\ fetch_log[2].response.kind = "ok"
    /\ all_gaps = <<>>
    /\ DOMAIN stats = {}

(***************************************************************************)
(* C8.  A failed keyword-comparison fetch (timeout, network error,         *)
(* non-2xx status) does not abort the run: every competitor is fetched, in *)
(* order, and the returned pool holds, for each competitor whose fetch     *)
(* succeeded, exactly the rows of its payload that pass the default        *)
(* filter, each one scored, and no record of a competitor whose fetch      *)
(* failed.                                                                 *)
(***************************************************************************)
C8_From(competitor) ==
    LET IsFrom(g) == g.competitor = competitor IN SelectSeq(all_gaps, IsFrom)

C8_PassingRows(body) == {i \in 1..Len(body) : C1_InBounds(body[i], AEO_FILTERS)}

C8_FailedFetchIsSkipped ==
    /\ pc # "raised"
    /\ pc = "loop" => Len(fetch_log) = idx
    /\ Returned =>
        /\ Len(fetch_log) = Len(competitors)
        /\ \A k \in 1..Len(fetch_log) : fetch_log[k].competitor = competitors[k]
        /\ \A g \in Range(all_gaps) : g.competitor \in Range(competitors)
        /\ \A k \in 1..Len(fetch_log) :
              LET resp == fetch_log[k].response
                  mine == C8_From(competitors[k])
              IN  IF resp.kind \in RequestFailures
                  THEN mine = <<>>
                  ELSE /\ Len(mine) = Cardinality(C8_PassingRows(resp.body))
                       /\ \A g \in Range(mine) :
                             /\ {"aeo_score", "intent", "aeo_feature_boost"} \subseteq DOMAIN g
                             /\ \E i \in C8_PassingRows(resp.body) :
                                   \A field \in DOMAIN resp.body[i] :
                                       g[field] = resp.body[i][field]

\* three competitors, the fetch for the second timed out, the other two
\* each contributed
C8_Witness ==
    /\ pc = "done"
    /\ Len(competitors) = 3
    /\ fetch_log[1].response.kind = "ok"
    /\ fetch_log[2].response.kind = "timeout"
    /\ fetch_log[3].response.kind = "ok"
    /\ C8_From(competitors[1]) # <<>>
    /\ C8_From(competitors[2]) = <<>>
    /\ C8_From(competitors[3]) # <<>>

(***************************************************************************)
(* SpecRank: the ranking step of analyze_content_gaps (the sort of line    *)
(* 232) run twice, on a scored pool and on the same records in another     *)
(* arrival order.  outA and outB are <<>> before the run and <<list>>      *)
(* after it.                                                               *)
(***************************************************************************)
ScoredRecords ==
    UNION {Range(scored) : scored \in
        AnalyzeGaps(<<GapRowA, GapRowB, GapRowC, GapRowE, GapRowF>>, "a.com")
            \cup AnalyzeGaps(<<GapRowA>>, "b.com")}

Reordered(pool) ==
    {[i \in 1..Len(pool) |-> pool[p[i]]] : p \in Permutations(1..Len(pool))}

InitRank ==
    /\ poolA \in SeqsUpTo(ScoredRecords, MaxPool)
    /\ poolB \in Reordered(poolA)
    /\ outA = <<>> /\ outB = <<>>
    /\ RecordIdle /\ FilterIdle /\ GapIdle /\ SerpIdle

RankA ==
    /\ outA = <<>>
    /\ outA' = <<SortByScore(poolA)>>
    /\ UNCHANGED <<poolA, poolB, outB, recordVars, filterVars, gapVars, serpVars>>

RankB ==
    /\ outB = <<>>
    /\ outB' = <<SortByScore(poolB)>>
    /\ UNCHANGED <<poolA, poolB, outA, recordVars, filterVars, gapVars, serpVars>>

NextRank == RankA \/ RankB

SpecRank == InitRank /\ [][NextRank]_vars

(***************************************************************************)
(* C6.  The claim as stated: two runs of the ranking step on the same      *)
(* records in different arrival orders return identical sequences.  The    *)
(* sort is stable on aeo_score alone, so records of equal score come out   *)
(* in each run's own arrival order and this fails.                         *)
(***************************************************************************)
BothRanked == outA # <<>> /\ outB # <<>>

C6_PermutationInvariant == BothRanked => outA[1] = outB[1]

(***************************************************************************)
(* C6, amended.  Two runs of the ranking step on the same records in       *)
(* different arrival orders return the same records with the same sequence *)
(* of aeo_score values, each run keeping records of equal aeo_score in its *)
(* own arrival order; the two sequences are identical whenever no two      *)
(* different records of the pool have the same aeo_score.                  *)
(***************************************************************************)
C6_ScoresDistinct(pool) ==
    \A i, j \in 1..Len(pool) :
        pool[i] # pool[j] => pool[i].aeo_score # pool[j].aeo_score

C6_InvariantUpToTies ==
    BothRanked =>
        /\ Len(outA[1]) = Len(poolA) /\ Len(outB[1]) = Len(poolB)
        /\ \A i \in 1..Len(outA[1]) : outA[1][i].aeo_score = outB[1][i].aeo_score
        /\ \A v \in ScoresOf(poolA) :
              /\ WithScore(outA[1], v) = WithScore(poolA, v)
              /\ WithScore(outB[1], v) = WithScore(poolB, v)
        /\ C6_ScoresDistinct(poolA) => outA[1] = outB[1]

\* three records of pairwise different score, arriving in two different
\* orders, ranked identically
C6_Witness ==
    /\ BothRanked
    /\ Len(poolA) = 3
    /\ poolA # poolB
    /\ poolA[1] # poolA[2] /\ poolA[2] # poolA[3] /\ poolA[1] # poolA[3]
    /\ C6_ScoresDistinct(poolA)
    /\ outA[1] = outB[1]
    /\ outA[1] # poolA /\ outB[1] # poolB

(***************************************************************************)
(* DataForSEOClient (dataforseo_client.py).  An Optional value is <<>> for *)
(* None and <<value>> otherwise.  cost is in ten-thousandths of a dollar   *)
(* (0.0005 is 5).  The timestamp of a SerpResponse is the wall clock and   *)
(* is left out.  A call returns [raised, value], raised when an exception  *)
(* leaves the method.                                                      *)
(***************************************************************************)
Truthy(opt) == opt # <<>> /\ opt # <<"">>

\* a or b
PyOr(a, b) == IF Truthy(a) THEN a ELSE b

\* one credential is enough
is_configured_either(login, password) == Truthy(login) \/ Truthy(password)

is_configured(login, password) == Truthy(login) /\ Truthy(password)

\* d.get(k): None when the key is missing
GetOptional(d, k) == IF k \in DOMAIN d THEN <<d[k]>> ELSE <<>>

SerpResponse(success, query) ==
    [success |-> success, query |-> query, results |-> <<>>, cost |-> 0,
     error |-> <<>>, featured_snippet |-> <<>>, people_also_ask |-> <<>>,
     related_searches |-> <<>>, total_results |-> 0]

SerpFailure(query, message) == [SerpResponse(FALSE, query) EXCEPT !.error = <<message>>]

\* one item of the result row, folded into the four collections
ParseItem(acc, item) ==
    LET item_type == Get(item, "type", "")
    IN  IF item_type = "organic"
        THEN [acc EXCEPT !.results = Append(@,
                 [position |-> Get(item, "rank_absolute", 0),
                  title |-> Get(item, "title", ""),
                  link |-> Get(item, "url", ""),
                  snippet |-> Get(item, "description", ""),
                  displayed_link |-> Get(item, "breadcrumb", "")])]
        ELSE IF item_type = "featured_snippet" /\ acc.featured_snippet = <<>>
        THEN [acc EXCEPT !.featured_snippet =
                 << [title |-> GetOptional(item, "title"),
                     snippet |-> GetOptional(item, "description"),
                     link |-> GetOptional(item, "url")] >>]
        ELSE IF item_type = "people_also_ask"
        THEN [acc EXCEPT !.people_also_ask = @ \o
                 [i \in 1..Len(Get(item, "items", <<>>)) |->
                     [question |-> GetOptional(item.items[i], "title"),
                      snippet |-> GetOptional(item.items[i], "description"),
                      link |-> GetOptional(item.items[i], "url")]]]
        ELSE IF item_type = "related_searches"
        THEN LET IsStrOrDict(rs) == rs.kind \in {"str", "dict"}
                 rs_items == SelectSeq(Get(item, "items", <<>>), IsStrOrDict)
             IN  [acc EXCEPT !.related_searches = @ \o
                     [i \in 1..Len(rs_items) |->
                         [query |-> IF rs_items[i].kind = "str"
                                    THEN <<rs_items[i].value>>
                                    ELSE GetOptional(rs_items[i], "title")]]]
        ELSE acc

\* without "and not featured_snippet": the last featured snippet wins
RECURSIVE ParseItemsLastWins(_, _)
ParseItemsLastWins(acc, items) ==
    IF items = <<>> THEN acc
    ELSE ParseItemsLastWins(
             ParseItem(IF Get(Head(items), "type", "") = "featured_snippet"
                       THEN [acc EXCEPT !.featured_snippet = <<>>] ELSE acc,
                       Head(items)),
             Tail(items))

\* an organic item without rank_absolute is numbered by its place in results
RECURSIVE ParseItemsNumbered(_, _)
ParseItemsNumbered(acc, items) ==
    IF items = <<>> THEN acc
    ELSE ParseItemsNumbered(
             ParseItem(acc,
                       IF "rank_absolute" \in DOMAIN Head(items) THEN Head(items)
                       ELSE Put(Head(items), "rank_absolute", Len(acc.results) + 1)),
             Tail(items))

RECURSIVE ParseItems(_, _)
ParseItems(acc, items) ==
    IF items = <<>> THEN acc
    ELSE ParseItems(ParseItem(acc, Head(items)), Tail(items))

\* a payload whose shape makes the parser raise (a task that is no dict,
\* items that is null) carries the key "malformed"
_parse_response(data, query) ==
    IF "malformed" \in DOMAIN data THEN [raised |-> TRUE, value |-> <<>>]
    ELSE LET tasks == Get(data, "tasks", <<>>) IN
    IF tasks = <<>>
    THEN [raised |-> FALSE, value |-> SerpFailure(query, "Unknown error")]
    ELSE IF Get(tasks[1], "status_code", 0) # 20000
    THEN [raised |-> FALSE,
          value |-> [SerpResponse(FALSE, query) EXCEPT
                        !.error = GetOptional(tasks[1], "status_message")]]
    ELSE LET result_data == Get(tasks[1], "result", <<>>) IN
    IF result_data = <<>>
    THEN [raised |-> FALSE, value |-> SerpResponse(TRUE, query)]
    ELSE LET parsed == ParseItems(SerpResponse(TRUE, query),
                                  Get(result_data[1], "items", <<>>))
         IN  [raised |-> FALSE,
              value |-> [parsed EXCEPT !.cost = 5,
                                       !.total_results = Len(parsed.results)]]

\* search once the request has been sent: what comes of the transport outcome
SearchOutcome(transport, query) ==
    IF transport.kind = "timeout"
    THEN SerpFailure(query, "DataForSEO request timeout")
    ELSE IF transport.kind = "status" /\ transport.code \in {401, 403}
    THEN SerpFailure(query, "DataForSEO authentication failed")
    ELSE IF transport.kind = "status" /\ transport.code = 200
              /\ ~_parse_response(transport.data, query).raised
    THEN _parse_response(transport.data, query).value
    ELSE SerpFailure(query, "DataForSEO error")

(***************************************************************************)
(* get_keyword_data and get_keyword_difficulty: the map built from a       *)
(* decoded response.  cpc and competition are in hundredths.               *)
(***************************************************************************)
UpperChar(c) ==
    IF \E i \in 1..Len(LowerChars) : LowerChars[i] = c
    THEN UpperChars[CHOOSE i \in 1..Len(LowerChars) : LowerChars[i] = c]
    ELSE c

upper(s) == [i \in 1..Len(s) |-> UpperChar(s[i])]

\* difficulty_map.get(str(comp_level).upper(), 50)
DifficultyFromLevel(comp_level) ==
    LET level == upper(comp_level)
    IN  IF level = <<"L","O","W">> THEN 25
        ELSE IF level = <<"M","E","D","I","U","M">> THEN 50
        ELSE IF level = <<"H","I","G","H">> THEN 75
        ELSE 50

KeywordDataEntry(item) ==
    [volume |-> Get(item, "search_volume", 0),
     cpc |-> Get(item, "cpc", 0),
     competition |-> Get(item, "competition", 0),
     competition_level |-> Get(item, "competition_level", <<>>),
     difficulty |-> DifficultyFromLevel(Get(item, "competition_level", <<>>))]

\* int(difficulty) if difficulty else 50
KeywordDifficultyEntry(item) ==
    IF Get(item, "keyword_difficulty", 50) = 0 THEN 50
    ELSE Get(item, "keyword_difficulty", 50)

\* the value stored under a keyword by the call named
Entry(name, item) ==
    IF name = "get_keyword_data" THEN KeywordDataEntry(item)
    ELSE KeywordDifficultyEntry(item)

RECURSIVE CollectItems(_, _, _)
CollectItems(result_map, items, name) ==
    IF items = <<>> THEN result_map
    ELSE LET keyword == lower(Get(Head(items), "keyword", <<>>))
         IN  CollectItems(IF keyword # <<>>
                          THEN Put(result_map, keyword, Entry(name, Head(items)))
                          ELSE result_map,
                          Tail(items), name)

RECURSIVE CollectTasks(_, _, _)
CollectTasks(result_map, tasks, name) ==
    IF tasks = <<>> THEN result_map
    ELSE CollectTasks(IF Get(Head(tasks), "status_code", 0) = 20000
                      THEN CollectItems(result_map, Get(Head(tasks), "result", <<>>), name)
                      ELSE result_map,
                      Tail(tasks), name)

\* either call once the request has been sent; every failure gives {}
KeywordsOutcome(transport, name) ==
    IF /\ transport.kind = "status" /\ transport.code = 200
       /\ "malformed" \notin DOMAIN transport.data
    THEN CollectTasks(<<>>, Get(transport.data, "tasks", <<>>), name)
    ELSE <<>>

(***************************************************************************)
(* Inputs of the client: credentials, provider payloads, transport         *)
(* outcomes.                                                               *)
(***************************************************************************)
Credentials == {<<>>, <<"">>, <<"user">>}

SerpItems ==
    { [type |-> "organic", rank_absolute |-> 1, title |-> "t1", url |-> "u1",
       description |-> "d1", breadcrumb |-> "b1"],
      [type |-> "organic", rank_absolute |-> 3, title |-> "t3"],
      [type |-> "organic"],
      [type |-> "featured_snippet", title |-> "fs1", description |-> "fd1", url |-> "fu1"],
      [type |-> "featured_snippet", title |-> "fs2"],
      [type |-> "people_also_ask",
       items |-> <<[title |-> "q1", description |-> "a1", url |-> "pu1"], [title |-> "q2"]>>],
      [type |-> "related_searches",
       items |-> <<[kind |-> "str", value |-> "r1"], [kind |-> "dict", title |-> "r2"],
                   [kind |-> "number"], [kind |-> "dict"]>>],
      [type |-> "video"] }

SerpPayloads ==
    { [malformed |-> TRUE],
      [version |-> "0.1"],
      [tasks |-> <<>>],
      [tasks |-> <<[status_code |-> 40501, status_message |-> "Invalid Field"]>>],
      [tasks |-> <<[status_code |-> 40501]>>],
      [tasks |-> <<[status_message |-> "Ok."]>>],
      [tasks |-> <<[status_code |-> 20000, status_message |-> "Ok."]>>],
      [tasks |-> <<[status_code |-> 20000, result |-> <<>>]>>],
      [tasks |-> <<[status_code |-> 20000, result |-> <<[items_count |-> 0]>>]>>] }
    \cup {[tasks |-> <<[status_code |-> 20000, status_message |-> "Ok.",
                        result |-> <<[items |-> items]>>]>>] :
             items \in SeqsUpTo(SerpItems, MaxItems)}

KeywordItemA ==
    [keyword |-> <<"C","R","M"," ","T","o","o","l">>, search_volume |-> 800, cpc |-> 120, competition |-> 15,
     competition_level |-> <<"l","o","w">>, keyword_difficulty |-> 40]

KeywordItemB ==
    [keyword |-> <<"c","r","m"," ","t","o","o","l">>, competition_level |-> <<"H","I","G","H">>, keyword_difficulty |-> 0]

KeywordItemC == [search_volume |-> 5]

KeywordPayloads ==
    { [malformed |-> TRUE],
      [version |-> "0.1"],
      [tasks |-> <<[status_code |-> 40501, result |-> <<KeywordItemA>>]>>],
      [tasks |-> <<[status_code |-> 20000, result |-> <<KeywordItemA, KeywordItemC>>]>>],
      [tasks |-> <<[status_code |-> 20000, result |-> <<KeywordItemA, KeywordItemB>>]>>],
      [tasks |-> <<[status_code |-> 20000, result |-> <<KeywordItemB>>],
                   [status_code |-> 20000, result |-> <<KeywordItemA>>]>>] }

Transports(payloads) ==
    {[kind |-> "timeout"], [kind |-> "network_error"]}
        \cup {[kind |-> "status", code |-> c] : c \in {401, 403, 500}}
        \cup {[kind |-> "status", code |-> 200, data |-> d] : d \in payloads}

KeywordArguments == {<<>>, << <<"c","r","m"," ","t","o","o","l">> >>, << <<"C","R","M"," ","T","o","o","l">>, <<"z","z","z">> >>}

(***************************************************************************)
(* SpecSerp: a client is constructed and one of its methods is called.     *)
(***************************************************************************)
InitSerp ==
    /\ \E login \in Credentials, env_login \in Credentials :
          api_login = PyOr(login, env_login)
    /\ \E password \in Credentials, env_password \in Credentials :
          api_password = PyOr(password, env_password)
    /\ net_calls = 0 /\ call = "none" /\ response = <<>> /\ payload = <<>>
    /\ RecordIdle /\ FilterIdle /\ GapIdle /\ RankIdle

Search ==
    /\ call = "none"
    /\ call' = "search"
    /\ IF ~is_configured(api_login, api_password)
       THEN /\ response' = [raised |-> FALSE,
                            value |-> SerpFailure("q", "DataForSEO credentials not configured")]
            /\ net_calls' = net_calls
            /\ payload' = payload
       ELSE \E transport \in Transports(SerpPayloads) :
            /\ net_calls' = net_calls + 1
            /\ payload' = IF transport.kind = "status" /\ transport.code = 200
                          THEN <<transport.data>> ELSE <<>>
            /\ response' = [raised |-> FALSE, value |-> SearchOutcome(transport, "q")]
    /\ UNCHANGED <<api_login, api_password, recordVars, filterVars, gapVars, rankVars>>

ParseResponse ==
    /\ call = "none"
    /\ call' = "_parse_response"
    /\ \E data \in SerpPayloads :
          response' = _parse_response(data, "q") /\ payload' = <<data>>
    /\ UNCHANGED <<api_login, api_password, net_calls>>
    /\ UNCHANGED <<recordVars, filterVars, gapVars, rankVars>>

KeywordsCall(name) ==
    /\ call = "none"
    /\ call' = name
    /\ \E kws \in KeywordArguments :
         IF ~is_configured(api_login, api_password) \/ kws = <<>>
         THEN /\ response' = [raised |-> FALSE, value |-> <<>>]
              /\ net_calls' = net_calls
         ELSE \E transport \in Transports(KeywordPayloads) :
              /\ net_calls' = net_calls + 1
              /\ response' = [raised |-> FALSE, value |-> KeywordsOutcome(transport, name)]
    /\ UNCHANGED <<api_login, api_password, payload>>
    /\ UNCHANGED <<recordVars, filterVars, gapVars, rankVars>>

GetKeywordData == KeywordsCall("get_keyword_data")

GetKeywordDifficulty == KeywordsCall("get_keyword_difficulty")

NextSerp == Search \/ ParseResponse \/ GetKeywordData \/ GetKeywordDifficulty

SpecSerp == InitSerp /\ [][NextSerp]_vars

(***************************************************************************)
(* C9.  Every SerpResponse returned by search or _parse_response has:      *)
(* success = false implies results empty and error non-null; success =     *)
(* true implies error null.  A failed task without status_message gives    *)
(* success = false with error None, so this fails on the code.             *)
(***************************************************************************)
ReturnedSerpResponse == call \in {"search", "_parse_response"} /\ ~response.raised

C9_SuccessErrorInvariant ==
    ReturnedSerpResponse =>
        /\ ~response.value.success =>
              (response.value.results = <<>> /\ response.value.error # <<>>)
        /\ response.value.success => response.value.error = <<>>

(***************************************************************************)
(* C10.  A client without credentials (login or password missing) issues   *)
(* no network request: search returns a SerpResponse with success = false  *)
(* and an error, get_keyword_data and get_keyword_difficulty return an     *)
(* empty map, and none of them raises.                                     *)
(***************************************************************************)
C10_Missing(credential) == credential = <<>> \/ credential = <<"">>

C10_NotConfiguredShortCircuits ==
    (C10_Missing(api_login) \/ C10_Missing(api_password)) =>
        /\ net_calls = 0
        /\ call \in {"search", "get_keyword_data", "get_keyword_difficulty"} =>
              ~response.raised
        /\ call = "search" =>
              /\ ~response.value.success
              /\ response.value.error # <<>>
              /\ response.value.results = <<>>
        /\ call \in {"get_keyword_data", "get_keyword_difficulty"} =>
              DOMAIN response.value = {}

\* a login without a password, and search called
C10_Witness ==
    /\ api_login = <<"user">>
    /\ C10_Missing(api_password)
    /\ call = "search"
    /\ net_calls = 0
    /\ ~response.value.success
    /\ response.value.error = <<"DataForSEO credentials not configured">>

(***************************************************************************)
(* C11.  filter_longtail_aeo leaves its input as it was: after the call    *)
(* the input list and every record in it, kept or excluded, have exactly   *)
(* the fields and values they had before.                                  *)
(***************************************************************************)
C11_InputUntouched ==
    [][keywords' = keywords /\ filters' = filters]_vars

C11_Without(row, field) == [k \in DOMAIN row \ {field} |-> row[k]]

\* as the code has it: the list keeps its length and order and the excluded
\* records stay as they were; a kept record gains (or has overwritten) the
\* one field word_count, the number of tokens of its keyword
C11_OnlyWordCountWritten ==
    [][(fpc = "ready" /\ fpc' = "returned") =>
          /\ filters' = filters
          /\ Len(keywords') = Len(keywords)
          /\ \A i \in 1..Len(keywords) :
                IF i \in Range(longtail')
                THEN /\ DOMAIN keywords'[i] = DOMAIN keywords[i] \cup {"word_count"}
                     /\ C11_Without(keywords'[i], "word_count")
                            = C11_Without(keywords[i], "word_count")
                     /\ keywords'[i].word_count =
                            (IF "keyword" \in DOMAIN keywords[i]
                             THEN C1_Tokens(keywords[i].keyword, 1) ELSE 0)
                ELSE keywords'[i] = keywords[i]]_vars

\* after the call: a kept record whose word_count 7 was overwritten by 3,
\* beside an excluded record that has no word_count
C11_Witness ==
    /\ fpc = "returned"
    /\ Len(keywords) = 2
    /\ longtail = <<1>>
    /\ keywords[1].difficulty = 20
    /\ keywords[1].word_count = 3
    /\ "word_count" \notin DOMAIN keywords[2]

(***************************************************************************)
(* C12.  The record "pricing" with volume 3000, difficulty 10 and          *)
(* featured_snippet among its serp_features, taken through                 *)
(* categorize_by_intent, check_aeo_serp_features and calculate_aeo_score,  *)
(* has matched_intents holding only "commercial", intent "commercial" with *)
(* multiplier 1.3, aeo_feature_boost 1.3 and aeo_score 460.91.             *)
(***************************************************************************)
C12_Scenario ==
    /\ stages = <<"categorize_by_intent", "check_aeo_serp_features",
                  "calculate_aeo_score">>
    /\ kw.keyword = <<"p","r","i","c","i","n","g">>
    /\ "volume" \in DOMAIN kw /\ kw.volume = 3000
    /\ "difficulty" \in DOMAIN kw /\ kw.difficulty = 10
    /\ "serp_features" \in DOMAIN kw
    /\ "featured_snippet" \in Range(kw.serp_features)

C12_PricingIsCommercialOnly ==
    C12_Scenario =>
        /\ kw.matched_intents = <<"commercial">>
        /\ kw.intent = "commercial" /\ kw.intent_multiplier = 13
        /\ kw.aeo_feature_boost = 13
        /\ kw.aeo_score = 46091

\* as the code has it: "pricing" contains the local trigger "in", so local
\* is matched too; the primary intent, the boost and the score are as claimed
C12_PricingIsCommercialAndLocal ==
    C12_Scenario =>
        /\ kw.matched_intents = <<"commercial", "local">>
        /\ kw.intent = "commercial" /\ kw.intent_multiplier = 13
        /\ kw.aeo_feature_boost = 13
        /\ kw.aeo_score = 46091

C12_Witness ==
    /\ C12_Scenario
    /\ kw.serp_features = <<"featured_snippet">>
    /\ kw.matched_intents = <<"commercial", "local">>
    /\ kw.aeo_score = 46091

(***************************************************************************)
(* C13.  check_aeo_serp_features sets aeo_feature_boost = 1.3 and          *)
(* has_aeo_features = true exactly when serp_features holds at least one   *)
(* of people_also_ask, featured_snippet, sge, knowledge_panel, faq;        *)
(* otherwise the boost is 1.0 and the flag false.  No other boost value    *)
(* is produced.                                                            *)
(***************************************************************************)
C13_Shared ==
    (IF "serp_features" \in DOMAIN kw THEN Range(kw.serp_features) ELSE {})
    \cap {"people_also_ask", "featured_snippet", "sge", "knowledge_panel", "faq"}

C13_BoostIffSharedFeature ==
    "check_aeo_serp_features" \in Range(stages) =>
        /\ kw.aeo_feature_boost \in {10, 13}
        /\ C13_Shared # {} => (kw.aeo_feature_boost = 13 /\ kw.has_aeo_features)
        /\ C13_Shared = {} => (kw.aeo_feature_boost = 10 /\ ~kw.has_aeo_features)

\* one feature off the allow-list beside one on it
C13_Witness ==
    /\ LastStage = "check_aeo_serp_features"
    /\ "serp_features" \in DOMAIN kw
    /\ kw.serp_features = <<"video", "faq">>
    /\ kw.aeo_serp_features = <<"faq">>
    /\ kw.has_aeo_features
    /\ kw.aeo_feature_boost = 13

(***************************************************************************)
(* C14.  The collection does not deduplicate across competitors: a keyword *)
(* that passes the filter in the payloads of k competitors is in the       *)
(* returned pool as k records, one per competitor, each tagged with its    *)
(* competitor (and once per passing row that carries it).                  *)
(***************************************************************************)
C14_Records(text, competitor) ==
    {j \in 1..Len(all_gaps) :
        all_gaps[j].keyword = text /\ all_gaps[j].competitor = competitor}

C14_Rows(text, resp) ==
    IF resp.kind = "ok"
    THEN {i \in C8_PassingRows(resp.body) : resp.body[i].keyword = text}
    ELSE {}

C14_Texts ==
    UNION {{resp.body[i].keyword : i \in 1..Len(resp.body)} :
              resp \in {fetch_log[k].response : k \in 1..Len(fetch_log)}
                            \cap {r \in ComparisonResponses : r.kind = "ok"}}

C14_NoDeduplication ==
    Returned =>
        \A k \in 1..Len(fetch_log) : \A text \in C14_Texts :
            Cardinality(C14_Records(text, competitors[k]))
                = Cardinality(C14_Rows(text, fetch_log[k].response))

\* the same row in the payload of each of three competitors: three records
C14_Witness ==
    /\ pc = "done"
    /\ Len(competitors) = 3
    /\ \A k \in 1..3 : fetch_log[k].response = [kind |-> "ok", body |-> <<GapRowA>>]
    /\ Len(all_gaps) = 3
    /\ \A j \in 1..3 :
          all_gaps[j].keyword = GapRowA.keyword /\ all_gaps[j].competitor = competitors[j]

(***************************************************************************)
(* C15.  With no competitor list supplied, a failed competitor lookup      *)
(* (timeout, network error, non-2xx status) gives an empty competitor      *)
(* list: no comparison fetch is issued, the run completes without raising  *)
(* and the returned pool is empty.                                         *)
(***************************************************************************)
C15_DiscoveryFailed == discovery # <<>> /\ discovery[1].kind \in RequestFailures

C15_FailedDiscoveryGivesEmptyPool ==
    C15_DiscoveryFailed =>
        /\ Returned
        /\ competitors = <<>>
        /\ idx = 0 /\ fetch_log = <<>>
        /\ all_gaps = <<>>

\* the lookup timed out and the run has returned
C15_Witness ==
    /\ discovery = <<[kind |-> "timeout"]>>
    /\ pc = "done"
    /\ fetch_log = <<>>
    /\ all_gaps = <<>>

(***************************************************************************)
(* C16.  aeo_score is computed on a record only after both                 *)
(* categorize_by_intent and check_aeo_serp_features have run on it: a call *)
(* of calculate_aeo_score on a record that has not passed both stages      *)
(* fails or is disallowed, and leaves no aeo_score on the record.          *)
(***************************************************************************)
C16_StagesBefore == SubSeq(stages, 1, Len(stages) - 1)

C16_ScoreOnlyAfterBothStages ==
    (/\ LastStage = "calculate_aeo_score"
     /\ ~({"categorize_by_intent", "check_aeo_serp_features"}
            \subseteq Range(C16_StagesBefore)))
        => "aeo_score" \notin DOMAIN kw

\* as the code has it: the call is possible on any record and never fails;
\* for a stage that has not run its factor is absent and 1.0 stands in
C16_EarlyScoreUsesDefaults ==
    /\ Len(stages) < MaxCalls => ENABLED CalculateAeoScore
    /\ ~Categorized => "intent_multiplier" \notin DOMAIN kw
    /\ "check_aeo_serp_features" \notin Range(stages) =>
           "aeo_feature_boost" \notin DOMAIN kw
    /\ LastStage = "calculate_aeo_score" =>
           LET multiplier == IF Categorized THEN kw.intent_multiplier ELSE 10
               boost == IF "check_aeo_serp_features" \in Range(stages)
                        THEN kw.aeo_feature_boost ELSE 10
               volume == IF "volume" \in DOMAIN kw THEN kw.volume ELSE 0
           IN  /\ "aeo_score" \in DOMAIN kw
               /\ 2 * Abs(kw.aeo_score * (C2_Difficulty + 1) - volume * multiplier * boost)
                      <= C2_Difficulty + 1

\* scored first, before either stage: 800 * 1.0 * 1.0 / (0 + 1) = 800.00 for
\* a question keyword with a featured snippet
C16_Witness ==
    /\ stages = <<"calculate_aeo_score">>
    /\ kw.keyword = <<"h","o","w"," ","t","o"," ","f","i","x">>
    /\ "serp_features" \in DOMAIN kw /\ kw.serp_features = <<"featured_snippet">>
    /\ "volume" \in DOMAIN kw /\ kw.volume = 800
    /\ C2_Difficulty = 0
    /\ kw.aeo_score = 80000

(***************************************************************************)
(* C17.  Every SerpResponse with success = true that _parse_response       *)
(* produces carries the per-query cost 0.0005, the "no data" outcome (the  *)
(* task succeeded but has no result rows) included.                        *)
(***************************************************************************)
C17_SuccessCarriesCost ==
    (ReturnedSerpResponse /\ response.value.success) => response.value.cost = 5

(***************************************************************************)
(* C18.  featured_snippet is built from the first item of type             *)
(* "featured_snippet" in payload order, later such items leave it as it    *)
(* is, and it is null exactly when the payload has no such item.           *)
(***************************************************************************)
\* the items of the first result row of a successful task
PayloadItems ==
    LET result == Get(payload[1].tasks[1], "result", <<>>)
    IN  IF result = <<>> THEN <<>> ELSE Get(result[1], "items", <<>>)

C18_Snippets ==
    {i \in 1..Len(PayloadItems) : Get(PayloadItems[i], "type", "") = "featured_snippet"}

C18_FirstFeaturedSnippetWins ==
    (ReturnedSerpResponse /\ response.value.success) =>
        IF C18_Snippets = {}
        THEN response.value.featured_snippet = <<>>
        ELSE LET first == CHOOSE i \in C18_Snippets : \A j \in C18_Snippets : i <= j
             IN  response.value.featured_snippet =
                    << [title |-> GetOptional(PayloadItems[first], "title"),
                        snippet |-> GetOptional(PayloadItems[first], "description"),
                        link |-> GetOptional(PayloadItems[first], "url")] >>

\* two featured snippets, the one without description and url first
C18_Witness ==
    /\ call = "_parse_response"
    /\ ~response.raised /\ response.value.success
    /\ Len(PayloadItems) = 2
    /\ C18_Snippets = {1, 2}
    /\ PayloadItems[2].title = "fs1"
    /\ response.value.featured_snippet =
           << [title |-> <<"fs2">>, snippet |-> <<>>, link |-> <<>>] >>

C19_Organic ==
    LET IsOrganic(item) == Get(item, "type", "") = "organic"
    IN  SelectSeq(PayloadItems, IsOrganic)

=============================================================================
